---- MODULE Spec2Model ----
(***************************************************************************)
(* logos-nom-bridge: the Tokens adapter (src/src/lib.rs) over a logos      *)
(* Lexer for the Token type of src/examples/simple.rs.                     *)
(*                                                                         *)
(* A source text is a sequence of one-byte characters; byte offsets are    *)
(* 0-based as in Rust, so the byte at offset i is s[i + 1].                *)
(***************************************************************************)
EXTENDS Integers, Sequences, FiniteSets, TLC

VARIABLES tokens, saved, other, out

vars == <<tokens, saved, other, out>>

\* The operation the last step called; out holds its arguments and its result.
Called == out.op

\* ------------------------------------------------------------------ bounds

\* Longest source text of the adapter under test.
MaxLen == 3

\* Longest source text of each of the two adapters compared by SpecEq.
MaxLenEq == 2

\* The bytes a source text is made of: two digits, the two operator tokens,
\* one skipped whitespace byte and one byte no rule matches.
Alphabet == {"0", "1", "+", "-", " ", "x"}

\* The bytes of the texts of SpecClone and SpecEq: numbers, signs and blanks.
NumberAlphabet == {"0", "1", "-", " "}

\* The texts of at most n bytes of an alphabet.
RECURSIVE Texts(_, _)
Texts(alphabet, n) ==
    IF n = 0 THEN {<<>>}
    ELSE Texts(alphabet, n - 1)
             \cup {Append(s, c) : s \in Texts(alphabet, n - 1), c \in alphabet}

Sources == Texts(Alphabet, MaxLen)

SourcesClone == Texts(NumberAlphabet, MaxLen)

SourcesEq == Texts(NumberAlphabet, MaxLenEq)

\* The texts of the adapters that are cut and cloned.
SourcesSlices == Texts({"1", "-", " "}, MaxLen)

\* --------------------------------------------------------- Option / Result

None == <<>>

Some(x) == <<x>>

Ok(v) == [tag |-> "Ok", val |-> v]

ErrNeededUnknown == [tag |-> "Err", needed |-> "Unknown"]

\* ------------------------------------------------------------------ Token

Plus == [variant |-> "Plus", n |-> 0]

Minus == [variant |-> "Minus", n |-> 0]

Number(v) == [variant |-> "Number", n |-> v]

Error == [variant |-> "Error", n |-> 0]

IsDigit(c) == c \in {"0", "1"}

IsSpace(c) == c = " "

DigitValue(c) == IF c = "1" THEN 1 ELSE 0

\* &source[a..b]
Slice(s, a, b) == SubSeq(s, a + 1, b)

\* End offset of the longest run of digits starting at offset i: [0-9]+.
RECURSIVE DigitsEnd(_, _)
DigitsEnd(s, i) ==
    IF i < Len(s) /\ IsDigit(s[i + 1]) THEN DigitsEnd(s, i + 1) ELSE i

\* End offset of the longest run of whitespace starting at offset i.
RECURSIVE SpaceEnd(_, _)
SpaceEnd(s, i) ==
    IF i < Len(s) /\ IsSpace(s[i + 1]) THEN SpaceEnd(s, i + 1) ELSE i

\* Decimal value of the digits s[a..b), most significant first.
RECURSIVE ParseDigits(_, _, _, _)
ParseDigits(s, a, b, acc) ==
    IF a >= b THEN acc ELSE ParseDigits(s, a + 1, b, acc * 10 + DigitValue(s[a + 1]))

\* lex.slice().parse::<i64>() on a slice matching -?[0-9]+ (texts of at most
\* MaxLen + 1 bytes never leave the i64 range).
ParseInt(s, a, b) ==
    IF s[a + 1] = "-" THEN 0 - ParseDigits(s, a + 1, b, 0) ELSE ParseDigits(s, a, b, 0)

\* Token::lex from offset i: the longest match of the rules of Token. A run of
\* whitespace is skipped (logos::skip moves the token start past it) and
\* lexing goes on; at the end of the source there is no token.
RECURSIVE LexAt(_, _)
LexAt(s, i) ==
    IF i >= Len(s) THEN [item |-> None, start |-> i, end |-> i]
    ELSE IF IsSpace(s[i + 1]) THEN LexAt(s, SpaceEnd(s, i))
    ELSE IF IsDigit(s[i + 1])
        THEN [item |-> Some(Number(ParseInt(s, i, DigitsEnd(s, i)))),
              start |-> i, end |-> DigitsEnd(s, i)]
    ELSE IF s[i + 1] = "-" /\ i + 1 < Len(s) /\ IsDigit(s[i + 2])
        THEN [item |-> Some(Number(ParseInt(s, i, DigitsEnd(s, i + 1)))),
              start |-> i, end |-> DigitsEnd(s, i + 1)]
    ELSE IF s[i + 1] = "-" THEN [item |-> Some(Minus), start |-> i, end |-> i + 1]
    ELSE IF s[i + 1] = "+" THEN [item |-> Some(Plus), start |-> i, end |-> i + 1]
    ELSE [item |-> Some(Error), start |-> i, end |-> i + 1]

\* ------------------------------------------------------------------ Lexer

\* Lexer::new(source): the span is 0..0.
LexerNew(source) == [source |-> source, token_start |-> 0, token_end |-> 0]

\* Lexer::clone: the source reference and the two offsets are copied.
LexerClone(lexer) ==
    [source |-> lexer.source, token_start |-> lexer.token_start,
     token_end |-> lexer.token_end]

\* Lexer::span()
Span(lexer) == [start |-> lexer.token_start, end |-> lexer.token_end]

\* Iterator::next of Lexer: the token start is set to the token end, then
\* Token::lex moves the span; the lexer after the call and the item.
LexerNext(lexer) ==
    LET r == LexAt(lexer.source, lexer.token_end)
    IN  [lexer |-> [lexer EXCEPT !.token_start = r.start, !.token_end = r.end],
         item |-> r.item]

\* Iterator::next of SpannedIter: the token with lexer.span() after the call.
SpannedNext(lexer) ==
    LET r == LexerNext(lexer)
    IN  [lexer |-> r.lexer,
         item |-> IF r.item = None THEN None
                  ELSE Some([token |-> r.item[1], span |-> Span(r.lexer)])]

\* ----------------------------------------------------------------- Tokens

\* new() that lexes the first token at once.
new_eager(input) == [lexer |-> LexerNext(LexerNew(input)).lexer]

\* Tokens::new(input)
new(input) == [lexer |-> LexerNew(input)]

\* Tokens::default()
default == [lexer |-> LexerNew(<<>>)]

\* clone() that copies the source and starts over at its beginning.
clone_rewound(self) == [lexer |-> LexerNew(self.lexer.source)]

\* Tokens::clone(&self)
clone(self) == [lexer |-> LexerClone(self.lexer)]

\* Tokens::len(&self)
len(self) == Len(self.lexer.source) - self.lexer.token_end

\* Tokens::is_empty(&self)
is_empty(self) == len(self) = 0

\* peek() written on the held lexer itself, without the clone.
peek_no_clone(self) ==
    LET r == SpannedNext(self.lexer)
    IN  [self |-> [self EXCEPT !.lexer = r.lexer],
         ret |-> IF r.item = None THEN None
                 ELSE Some([token |-> r.item[1].token,
                            slice |-> Slice(self.lexer.source,
                                            r.item[1].span.start,
                                            r.item[1].span.end)])]

\* Tokens::peek(&self): the adapter after the call and the returned option of
\* (token, source slice); the iterator runs on a clone of the lexer.
peek(self) ==
    LET iter == LexerClone(self.lexer)
        r == SpannedNext(iter)
    IN  [self |-> self,
         ret |-> IF r.item = None THEN None
                 ELSE Some([token |-> r.item[1].token,
                            slice |-> Slice(self.lexer.source,
                                            r.item[1].span.start,
                                            r.item[1].span.end)])]

\* advance() that steps the lexer twice.
advance_twice(self) ==
    [self EXCEPT !.lexer = LexerNext(LexerNext(self.lexer).lexer).lexer]

\* advance() that hands the adapter back as it was.
advance_stay(self) == self

\* Tokens::advance(self)
advance(self) == [self EXCEPT !.lexer = LexerNext(self.lexer).lexer]

\* Iterator::eq(self.lexer.clone(), other.lexer.clone()): both lexers are
\* stepped together and the tokens compared until one of them ends.
RECURSIVE IteratorEq(_, _)
IteratorEq(a, b) ==
    LET x == LexerNext(a)
        y == LexerNext(b)
    IN  IF x.item = None THEN y.item = None
        ELSE IF y.item = None THEN FALSE
        ELSE IF x.item[1] # y.item[1] THEN FALSE
        ELSE IteratorEq(x.lexer, y.lexer)

\* eq() that compares the unconsumed text instead of the tokens.
eq_text(self, o) ==
    Slice(self.lexer.source, self.lexer.token_end, Len(self.lexer.source))
        = Slice(o.lexer.source, o.lexer.token_end, Len(o.lexer.source))

\* PartialEq::eq(&self, &other)
eq(self, o) == IteratorEq(LexerClone(self.lexer), LexerClone(o.lexer))

\* The items a SpannedIter yields until it ends.
RECURSIVE Collect(_)
Collect(lexer) ==
    LET r == SpannedNext(lexer)
    IN  IF r.item = None THEN <<>> ELSE <<r.item[1]>> \o Collect(r.lexer)

\* InputIter::iter_elements(&self), as the sequence of its (token, span) items.
iter_elements(self) == Collect(LexerClone(self.lexer))

\* Iterator::next of IndexIterator: the token with the span after the call,
\* paired with the start of that span.
IndexIteratorNext(logos) ==
    LET r == LexerNext(logos)
    IN  [logos |-> r.lexer,
         item |-> IF r.item = None THEN None
                  ELSE Some([index |-> Span(r.lexer).start,
                             item |-> [token |-> r.item[1], span |-> Span(r.lexer)]])]

\* The items an IndexIterator yields until it ends.
RECURSIVE CollectIndices(_)
CollectIndices(logos) ==
    LET r == IndexIteratorNext(logos)
    IN  IF r.item = None THEN <<>> ELSE <<r.item[1]>> \o CollectIndices(r.logos)

\* An index iterator that counts the tokens, as Iterator::enumerate does.
RECURSIVE Enumerate(_, _)
Enumerate(items, i) ==
    IF items = <<>> THEN <<>>
    ELSE <<[index |-> i, item |-> items[1]]>> \o Enumerate(Tail(items), i + 1)

iter_indices_enumerate(self) == Enumerate(Collect(LexerClone(self.lexer)), 0)

\* InputIter::iter_indices(&self), as the sequence of its (index, item) pairs.
iter_indices(self) == CollectIndices(LexerClone(self.lexer))

\* The predicates position is called with, each a function of an item.
Predicates == {"plus", "number", "wide"}

Holds(p, item) ==
    CASE p = "plus" -> item.token = Plus
      [] p = "number" -> item.token.variant = "Number"
      [] p = "wide" -> item.span.end - item.span.start >= 2

\* Iterator::find on a SpannedIter
RECURSIVE Find(_, _)
Find(iter, p) ==
    LET r == SpannedNext(iter)
    IN  IF r.item = None THEN None
        ELSE IF Holds(p, r.item[1]) THEN r.item
        ELSE Find(r.lexer, p)

\* position() that measures from the end of the current span.
position_relative(self, p) ==
    LET found == Find(LexerClone(self.lexer), p)
    IN  IF found = None THEN None
        ELSE Some(found[1].span.start - self.lexer.token_end)

\* InputIter::position(&self, predicate)
position(self, p) ==
    LET found == Find(LexerClone(self.lexer), p)
    IN  IF found = None THEN None ELSE Some(found[1].span.start)

\* The for loop of slice_index: it returns from inside the loop (done) with
\* the start of the current span, or runs to the end of the iterator.
RECURSIVE SliceIndexLoop(_, _, _)
SliceIndexLoop(iter, cnt, count) ==
    LET r == SpannedNext(iter)
    IN  IF r.item = None THEN [done |-> FALSE, cnt |-> cnt, val |-> 0]
        ELSE IF cnt = count THEN [done |-> TRUE, cnt |-> cnt, val |-> r.item[1].span.start]
        ELSE SliceIndexLoop(r.lexer, cnt + 1, count)

\* slice_index() without the check after the loop.
slice_index_loop_only(self, count) ==
    LET l == SliceIndexLoop(LexerClone(self.lexer), 0, count)
    IN  IF l.done THEN Ok(l.val) ELSE ErrNeededUnknown

\* InputIter::slice_index(&self, count)
slice_index(self, count) ==
    LET l == SliceIndexLoop(LexerClone(self.lexer), 0, count)
    IN  IF l.done THEN Ok(l.val)
        ELSE IF l.cnt = count THEN Ok(len(self))
        ELSE ErrNeededUnknown

\* take() that cuts the source and keeps the cursor of self.
take_keeping_cursor(self, count) ==
    [lexer |-> [self.lexer EXCEPT !.source = Slice(self.lexer.source, 0, count)]]

\* InputTake::take(&self, count): a lexer over &source[..count]
take(self, count) == [lexer |-> LexerNew(Slice(self.lexer.source, 0, count))]

\* take_split() that returns the suffix first, as nom's own inputs do.
take_split_suffix_first(self, count) ==
    <<[lexer |-> LexerNew(Slice(self.lexer.source, count, Len(self.lexer.source)))],
      [lexer |-> LexerNew(Slice(self.lexer.source, 0, count))]>>

\* InputTake::take_split(&self, count): lexers over source.split_at(count)
take_split(self, count) ==
    <<[lexer |-> LexerNew(Slice(self.lexer.source, 0, count))],
      [lexer |-> LexerNew(Slice(self.lexer.source, count, Len(self.lexer.source)))]>>

\* fmt::Debug::fmt(&self): the text shown in Tokens(..), &source[start..]
fmt(self) == Slice(self.lexer.source, self.lexer.token_start, Len(self.lexer.source))

\* ---------------------------------------------------------------- parsers

\* The token values a token parser is called on.
TokenInstances == {Plus, Minus, Error, Number(0), Number(1), Number(-1)}

\* nom::error::Error::new(input, nom::error::ErrorKind::IsA)
ErrorIsA(input) == [input |-> input, code |-> "IsA"]

\* Op::Number(n) of the example
OpNumber(n) == [variant |-> "Op::Number", n |-> n]

\* A token parser that compares the variants only.
token_parse_by_variant(token, input) ==
    LET p == peek(input).ret
    IN  IF p # None /\ p[1].token.variant = token.variant
        THEN [tag |-> "Ok", rest |-> advance(input), output |-> p[1].slice]
        ELSE [tag |-> "Err", kind |-> "Error", error |-> ErrorIsA(input)]

\* A token parser that consumes the token before it looks at it.
token_parse_consuming(token, input) ==
    LET p == peek(input).ret
    IN  IF p # None /\ p[1].token = token
        THEN [tag |-> "Ok", rest |-> advance(input), output |-> p[1].slice]
        ELSE [tag |-> "Err", kind |-> "Error", error |-> ErrorIsA(advance(input))]

\* token_parser!(token: Token): <Token as nom::Parser>::parse(&mut self, input)
\* with the default error.
token_parse(token, input) ==
    LET p == peek(input).ret
    IN  IF p # None /\ p[1].token = token
        THEN [tag |-> "Ok", rest |-> advance(input), output |-> p[1].slice]
        ELSE [tag |-> "Err", kind |-> "Error", error |-> ErrorIsA(input)]

\* A number parser whose pattern matches every token.
parse_number_any(input) ==
    LET p == peek(input).ret
    IN  IF p # None
        THEN [tag |-> "Ok", rest |-> advance(input), output |-> OpNumber(p[1].token.n)]
        ELSE [tag |-> "Err", kind |-> "Error", error |-> ErrorIsA(input)]

\* data_variant_parser! { fn parse_number(input) -> Result<Op>;
\* pattern = Token::Number(n) => Op::Number(n); } with the default error.
parse_number(input) ==
    LET p == peek(input).ret
    IN  IF p # None /\ p[1].token.variant = "Number"
        THEN [tag |-> "Ok", rest |-> advance(input), output |-> OpNumber(p[1].token.n)]
        ELSE [tag |-> "Err", kind |-> "Error", error |-> ErrorIsA(input)]

\* ------------------------------------------------------------ state machine

Init ==
    /\ \E input \in Sources :
          /\ tokens = new(input)
          /\ out = [op |-> "new", input |-> input]
    /\ saved = None
    /\ other = default

Advance ==
    /\ tokens' = advance(tokens)
    /\ out' = [op |-> "advance", self |-> tokens]
    /\ UNCHANGED <<saved, other>>

Peek ==
    /\ tokens' = peek(tokens).self
    /\ out' = [op |-> "peek", self |-> tokens, ret |-> peek(tokens).ret]
    /\ UNCHANGED <<saved, other>>

\* slice_index is called with every count up to one more than any text holds.
Counts == 0..(MaxLen + 1)

SliceIndex ==
    \E count \in Counts :
        /\ out' = [op |-> "slice_index", self |-> tokens, count |-> count,
                   ret |-> slice_index(tokens, count)]
        /\ UNCHANGED <<tokens, saved, other>>

Position ==
    \E p \in Predicates :
        /\ out' = [op |-> "position", self |-> tokens, pred |-> p,
                   ret |-> position(tokens, p)]
        /\ UNCHANGED <<tokens, saved, other>>

\* take and take_split slice the source and panic beyond its end.
Take ==
    \E count \in 0..Len(tokens.lexer.source) :
        /\ out' = [op |-> "take", self |-> tokens, count |-> count,
                   ret |-> take(tokens, count)]
        /\ UNCHANGED <<tokens, saved, other>>

TakeSplit ==
    \E count \in 0..Len(tokens.lexer.source) :
        /\ out' = [op |-> "take_split", self |-> tokens, count |-> count,
                   ret |-> take_split(tokens, count)]
        /\ UNCHANGED <<tokens, saved, other>>

\* The caller keeps a clone of the adapter to come back to.
Clone ==
    /\ saved' = Some(clone(tokens))
    /\ out' = [op |-> "clone", self |-> tokens]
    /\ UNCHANGED <<tokens, other>>

\* The caller backtracks to the clone it kept.
Restore ==
    /\ saved # None
    /\ tokens' = saved[1]
    /\ out' = [op |-> "restore"]
    /\ UNCHANGED <<saved, other>>

DebugFmt ==
    /\ out' = [op |-> "fmt", self |-> tokens, ret |-> fmt(tokens)]
    /\ UNCHANGED <<tokens, saved, other>>

IterElements ==
    /\ out' = [op |-> "iter_elements", self |-> tokens, ret |-> iter_elements(tokens)]
    /\ UNCHANGED <<tokens, saved, other>>

IterIndices ==
    /\ out' = [op |-> "iter_indices", self |-> tokens, ret |-> iter_indices(tokens)]
    /\ UNCHANGED <<tokens, saved, other>>

Next ==
    \/ Advance
    \/ Peek
    \/ SliceIndex
    \/ Position
    \/ Take
    \/ TakeSplit
    \/ DebugFmt
    \/ IterElements
    \/ IterIndices

Spec == Init /\ [][Next]_vars

\* A caller that backtracks: it clones the adapter, works on it and comes back.
NextClone ==
    \/ Advance
    \/ Take
    \/ TakeSplit
    \/ Clone
    \/ Restore

InitClone ==
    /\ \E input \in SourcesClone :
          /\ tokens = new(input)
          /\ out = [op |-> "new", input |-> input]
    /\ saved = None
    /\ other = default

SpecClone == InitClone /\ [][NextClone]_vars

\* Two adapters built from texts of their own, each advanced on its own and
\* compared.
InitEq ==
    /\ \E a \in SourcesEq, b \in SourcesEq :
          /\ tokens = new(a)
          /\ other = new(b)
    /\ saved = None
    /\ out = [op |-> "new"]

AdvanceOther ==
    /\ other' = advance(other)
    /\ out' = [op |-> "advance_other", self |-> other]
    /\ UNCHANGED <<tokens, saved>>

Eq ==
    /\ out' = [op |-> "eq", self |-> tokens, other |-> other, ret |-> eq(tokens, other)]
    /\ UNCHANGED <<tokens, saved, other>>

NextEq ==
    \/ Advance
    \/ AdvanceOther
    \/ Eq

SpecEq == InitEq /\ [][NextEq]_vars

\* The generated parsers take the adapter by value: the caller goes on with
\* the rest a success returns, or with the input the error hands back.
Handed(r) == IF r.tag = "Ok" THEN r.rest ELSE r.error.input

ParseToken ==
    \E token \in TokenInstances :
        /\ out' = [op |-> "token_parser", self |-> tokens, token |-> token,
                   ret |-> token_parse(token, tokens)]
        /\ tokens' = Handed(token_parse(token, tokens))
        /\ UNCHANGED <<saved, other>>

ParseNumber ==
    /\ out' = [op |-> "parse_number", self |-> tokens, ret |-> parse_number(tokens)]
    /\ tokens' = Handed(parse_number(tokens))
    /\ UNCHANGED <<saved, other>>

NextParse ==
    \/ Advance
    \/ ParseToken
    \/ ParseNumber

SpecParse == Init /\ [][NextParse]_vars

\* A caller that cuts, clones and advances in any order, starting from
\* new(s) or from default(), and goes on with whichever adapter it got.
InitSlices ==
    /\ \/ \E input \in SourcesSlices :
             /\ tokens = new(input)
             /\ out = [op |-> "new", input |-> input]
       \/ /\ tokens = default
          /\ out = [op |-> "default"]
    /\ saved = None
    /\ other = default

\* The caller goes on with an adapter that take or take_split returned.
Continue ==
    /\ Called \in {"take", "take_split"}
    /\ tokens' \in (IF Called = "take" THEN {out.ret} ELSE {out.ret[1], out.ret[2]})
    /\ out' = [op |-> "continue"]
    /\ UNCHANGED <<saved, other>>

NextSlices ==
    \/ Advance
    \/ Clone
    \/ Restore
    \/ Take
    \/ TakeSplit
    \/ Continue

SpecSlices == InitSlices /\ [][NextSlices]_vars

\* ------------------------------------------------------------------ claims

\* The token values an adapter still yields, in order.
RECURSIVE TokensOf(_)
TokensOf(items) ==
    IF items = <<>> THEN <<>> ELSE <<items[1].token>> \o TokensOf(Tail(items))

TokenValues(t) == TokensOf(iter_elements(t))

\* The source text an adapter has not consumed: the bytes from the end of its
\* span to the end of the source.
Unconsumed(t) == Slice(t.lexer.source, t.lexer.token_end, Len(t.lexer.source))

\* C1: whenever slice_index(count) of an adapter returns an offset o, take(o)
\* holds exactly the first count remaining tokens of the adapter, and the
\* second adapter of take_split(o) begins at the remaining token number
\* count + 1, or is depleted when there is none.
C1_TakeAtSliceIndex ==
    Called \in {"take", "take_split"} =>
        \A count \in Counts :
            slice_index(out.self, count) = Ok(out.count) =>
                IF Called = "take"
                THEN TokenValues(out.ret) = SubSeq(TokenValues(out.self), 1, count)
                ELSE peek(out.ret[2]).ret =
                         IF count < Len(iter_elements(out.self))
                         THEN LET item == iter_elements(out.self)[count + 1]
                              IN  Some([token |-> item.token,
                                        slice |-> Slice(out.self.lexer.source,
                                                        item.span.start, item.span.end)])
                         ELSE None

\* C2: take(c), for c no more than the remaining length, is a fresh adapter
\* (span 0..0) over exactly the first c bytes of the unconsumed source text.
C2_TakeIsPrefixOfUnconsumed ==
    (Called = "take" /\ out.count <= len(out.self)) =>
        out.ret = new(Slice(Unconsumed(out.self), 0, out.count))

\* C3: the adapter reached from new(s) by as many advance() calls as s has
\* tokens is empty. That adapter is the first one of the chain with no token
\* left: new(s) itself, or the result of an advance() that consumed a token.
C3_AllTokensConsumedIsEmpty ==
    (/\ \/ Called = "new"
        \/ Called = "advance" /\ peek(out.self).ret # None
     /\ peek(tokens).ret = None)
        => is_empty(tokens) /\ len(tokens) = 0

\* C4: advance() on an adapter whose peek() returns nothing changes nothing:
\* same length, same span, same peek() result, and equal to the adapter before.
C4_AdvancePastEndIsNoOp ==
    (Called = "advance" /\ peek(out.self).ret = None) =>
        /\ len(tokens) = len(out.self)
        /\ Span(tokens.lexer) = Span(out.self.lexer)
        /\ peek(tokens).ret = peek(out.self).ret
        /\ eq(tokens, out.self)

\* C5: peek() leaves the held lexer (span and source) and the length as they
\* were, a second peek() returns what the first returned, and advance() after
\* peek() gives the adapter advance() gives without it.
C5_PeekIsPure ==
    Called = "peek" =>
        /\ tokens.lexer = out.self.lexer
        /\ len(tokens) = len(out.self)
        /\ peek(tokens).ret = out.ret
        /\ peek(tokens).self = tokens
        /\ advance(tokens) = advance(out.self)

\* peek() returned a token of an adapter that had been advanced.
C5_Witness ==
    /\ Called = "peek"
    /\ out.ret # None
    /\ out.self.lexer.token_end > 0

\* C6: a clone is the adapter it was made from, and whatever advance(),
\* take() or take_split() do to the adapter afterwards the kept clone keeps
\* its length, its peek() result and its remaining tokens; going back to the
\* clone gives exactly the adapter that was cloned.
C6_CloneKeepsPosition ==
    [][/\ out'.op = "clone" => (saved' = Some(tokens) /\ tokens' = tokens)
       /\ (out'.op \in {"advance", "take", "take_split"} /\ saved # None) =>
             /\ saved' # None
             /\ len(saved'[1]) = len(saved[1])
             /\ peek(saved'[1]).ret = peek(saved[1]).ret
             /\ iter_elements(saved'[1]) = iter_elements(saved[1])
       /\ out'.op = "restore" => (tokens' = saved[1] /\ saved' = saved)]_vars

\* A clone is kept while the adapter has been advanced past it.
C6_Witness ==
    /\ Called = "advance"
    /\ saved # None
    /\ saved[1].lexer.token_end > 0
    /\ tokens.lexer.token_end > saved[1].lexer.token_end

\* C7: two adapters are equal exactly when the token values they still yield
\* are the same sequence, whatever their offsets, skipped text and sources.
C7_EqIsTokenSequenceEquality ==
    Called = "eq" => (out.ret <=> TokenValues(out.self) = TokenValues(out.other))

\* Equal adapters over different texts at different offsets, with tokens left.
C7_Witness ==
    /\ Called = "eq"
    /\ out.ret
    /\ TokenValues(out.self) # <<>>
    /\ Unconsumed(out.self) # Unconsumed(out.other)
    /\ out.self.lexer.token_end # out.other.lexer.token_end

\* The ordinal (from 1) of the first item satisfying p, 0 when there is none.
FirstMatch(items, p) ==
    IF \E i \in 1..Len(items) : Holds(p, items[i])
    THEN CHOOSE i \in 1..Len(items) :
             /\ Holds(p, items[i])
             /\ \A j \in 1..(i - 1) : ~Holds(p, items[j])
    ELSE 0

\* C8: position(pred) is the span start of the first remaining token that
\* satisfies pred, nothing when no remaining token does; when that token has
\* ordinal index k from the current position, slice_index(k) is that offset.
C8_PositionIsFirstMatchStart ==
    Called = "position" =>
        LET items == iter_elements(out.self)
            k == FirstMatch(items, out.pred)
        IN  IF k = 0 THEN out.ret = None
            ELSE /\ out.ret = Some(items[k].span.start)
                 /\ slice_index(out.self, k - 1) = Ok(out.ret[1])

\* position found a token that is not the first one left of an advanced adapter.
C8_Witness ==
    /\ Called = "position"
    /\ out.ret # None
    /\ out.self.lexer.token_end > 0
    /\ FirstMatch(iter_elements(out.self), out.pred) >= 2

\* C9: slice_index(count) returns Needed::Unknown exactly when fewer than
\* count tokens are left; otherwise it returns an offset within the source.
C9_NeededIffTooFewTokens ==
    Called = "slice_index" =>
        /\ (out.ret = ErrNeededUnknown) <=> (Len(iter_elements(out.self)) < out.count)
        /\ out.ret # ErrNeededUnknown =>
              /\ out.ret.tag = "Ok"
              /\ out.ret.val \in 0..Len(out.self.lexer.source)

\* slice_index asked an advanced adapter with tokens left for too many.
C9_Witness ==
    /\ Called = "slice_index"
    /\ out.ret = ErrNeededUnknown
    /\ out.self.lexer.token_end > 0
    /\ Len(iter_elements(out.self)) >= 1

\* C10: a new adapter is as long as its source text.
C10_NewHasSourceLength ==
    Called = "new" => len(tokens) = Len(out.input)

\* A new adapter over a text that begins with skipped whitespace.
C10_Witness ==
    /\ Called = "new"
    /\ Len(out.input) >= 2
    /\ out.input[1] = " "

\* C11: the token parser of value v succeeds exactly when peek() of its input
\* returns a token equal to v, and then returns the advanced input and the
\* slice peek() reported.
C11_TokenParserMatchesPeek ==
    Called = "token_parser" =>
        LET p == peek(out.self).ret
        IN  /\ (out.ret.tag = "Ok") <=> (p # None /\ p[1].token = out.token)
            /\ out.ret.tag = "Ok" =>
                  /\ out.ret.rest = advance(out.self)
                  /\ out.ret.output = p[1].slice
                  /\ tokens = advance(out.self)

\* The token parser of a number matched after skipped text.
C11_Witness ==
    /\ Called = "token_parser"
    /\ out.ret.tag = "Ok"
    /\ out.token.variant = "Number"
    /\ out.self.lexer.token_end > 0
    /\ Len(out.ret.output) < len(out.self) - len(out.ret.rest)

\* C12: a failing token parser returns nom::Err::Error, and the adapter in
\* the error is the input as it was: same length, same peek(), same tokens.
C12_TokenParserErrorKeepsInput ==
    (Called = "token_parser" /\ out.ret.tag = "Err") =>
        /\ out.ret.kind = "Error"
        /\ out.ret.error.input = out.self
        /\ len(out.ret.error.input) = len(out.self)
        /\ peek(out.ret.error.input).ret = peek(out.self).ret
        /\ iter_elements(out.ret.error.input) = iter_elements(out.self)

\* The token parser failed on a token of another value of the same variant.
C12_Witness ==
    /\ Called = "token_parser"
    /\ out.ret.tag = "Err"
    /\ peek(out.self).ret # None
    /\ peek(out.self).ret[1].token.variant = out.token.variant
    /\ out.self.lexer.token_end > 0

\* C13: parse_number succeeds exactly when peek() of its input returns a
\* Number, and then returns the advanced input and Op::Number of its value;
\* otherwise, also on a depleted input, it returns the IsA error with the
\* input as it was.
C13_ParseNumberMatchesPeek ==
    Called = "parse_number" =>
        LET p == peek(out.self).ret
        IN  /\ (out.ret.tag = "Ok") <=> (p # None /\ p[1].token.variant = "Number")
            /\ out.ret.tag = "Ok" =>
                  /\ out.ret.rest = advance(out.self)
                  /\ out.ret.output = OpNumber(p[1].token.n)
            /\ out.ret.tag # "Ok" =>
                  /\ out.ret.tag = "Err"
                  /\ out.ret.kind = "Error"
                  /\ out.ret.error = ErrorIsA(out.self)

\* parse_number failed on an adapter whose tokens have all been consumed.
C13_Witness ==
    /\ Called = "parse_number"
    /\ out.ret.tag = "Err"
    /\ peek(out.self).ret = None
    /\ out.self.lexer.token_end > 0
    /\ iter_elements(new(out.self.lexer.source)) # <<>>

\* C14: the Debug rendering of an adapter shows exactly its unconsumed source
\* text, the last len() bytes of the source, and no text of a consumed token.
C14_DebugShowsUnconsumed ==
    Called = "fmt" =>
        /\ out.ret = Unconsumed(out.self)
        /\ Len(out.ret) = len(out.self)

\* Every span an adapter yields lies inside its own source.
SpansInside(t) ==
    \A i \in 1..Len(iter_elements(t)) :
        /\ 0 <= iter_elements(t)[i].span.start
        /\ iter_elements(t)[i].span.start < iter_elements(t)[i].span.end
        /\ iter_elements(t)[i].span.end <= Len(t.lexer.source)

\* C15: take_split(c) returns a prefix adapter equal to take(c) and a suffix
\* adapter; they are fresh adapters (span 0..0) over the first c bytes and the
\* rest of the text that is split, their lengths add up to the length of that
\* text, and the spans they yield are offsets into their own sub-slices.
C15_TakeSplitParts ==
    Called = "take_split" =>
        /\ out.ret[1] = take(out.self, out.count)
        /\ eq(out.ret[1], take(out.self, out.count))
        /\ out.ret[1].lexer.source \o out.ret[2].lexer.source = out.self.lexer.source
        /\ Len(out.ret[1].lexer.source) = out.count
        /\ len(out.ret[1]) + len(out.ret[2]) = Len(out.self.lexer.source)
        /\ Span(out.ret[1].lexer) = [start |-> 0, end |-> 0]
        /\ Span(out.ret[2].lexer) = [start |-> 0, end |-> 0]
        /\ SpansInside(out.ret[1])
        /\ SpansInside(out.ret[2])

\* An advanced adapter split inside its text, with tokens on both sides.
C15_Witness ==
    /\ Called = "take_split"
    /\ out.self.lexer.token_end > 0
    /\ out.count > 0
    /\ iter_elements(out.ret[1]) # <<>>
    /\ iter_elements(out.ret[2]) # <<>>

\* C16: with exactly count tokens left, slice_index(count) is Ok(len()), and
\* that value is the end of the input in the coordinate of the offsets that
\* slice_index returns for smaller counts: none of those is greater, and
\* measured like them (from the start of the source) it is the source length.
C16_SliceIndexAtEnd ==
    (Called = "slice_index" /\ out.count = Len(iter_elements(out.self))) =>
        /\ out.ret = Ok(len(out.self))
        /\ \A k \in 0..(out.count - 1) :
              /\ slice_index(out.self, k).tag = "Ok"
              /\ slice_index(out.self, k).val <= out.ret.val
        /\ out.count > 0 => out.ret.val = Len(out.self.lexer.source)

\* C17: iter_indices yields the items iter_elements yields, in the same
\* order, each paired with the start of its span; the indices are strictly
\* increasing; neither iteration changes the adapter, and iterating again
\* gives the same sequence.
C17_IndicesAreSpanStarts ==
    /\ Called = "iter_indices" =>
          /\ Len(out.ret) = Len(iter_elements(out.self))
          /\ \A i \in 1..Len(out.ret) :
                /\ out.ret[i].item = iter_elements(out.self)[i]
                /\ out.ret[i].index = out.ret[i].item.span.start
          /\ \A i \in 1..(Len(out.ret) - 1) : out.ret[i].index < out.ret[i + 1].index
          /\ tokens = out.self
          /\ iter_indices(tokens) = out.ret
    /\ Called = "iter_elements" =>
          /\ tokens = out.self
          /\ iter_elements(tokens) = out.ret

\* Indices of an adapter whose second token follows skipped text.
C17_Witness ==
    /\ Called = "iter_indices"
    /\ Len(out.ret) >= 2
    /\ out.ret[2].index > out.ret[1].item.span.end

\* The adapters the caller holds: its own, its clone, and what the last
\* take or take_split returned.
Held ==
    {tokens}
    \cup (IF saved = None THEN {} ELSE {saved[1]})
    \cup (IF Called = "take" THEN {out.ret}
          ELSE IF Called = "take_split" THEN {out.ret[1], out.ret[2]}
          ELSE {})

\* C18: every adapter reached from new(s) or default() by advance, clone,
\* take and take_split with counts inside the source has
\* 0 <= start <= end <= source length, so its length is between 0 and the
\* source length.
C18_CursorInsideSource ==
    \A t \in Held :
        /\ 0 <= t.lexer.token_start
        /\ t.lexer.token_start <= t.lexer.token_end
        /\ t.lexer.token_end <= Len(t.lexer.source)
        /\ 0 <= len(t)
        /\ len(t) <= Len(t.lexer.source)

\* An adapter cut out of a longer one after the clone was kept, advanced to
\* the end of a token that is not at the start of its text.
C18_Witness ==
    /\ Called = "advance"
    /\ saved # None
    /\ saved[1].lexer.token_end > 0
    /\ Len(tokens.lexer.source) < Len(saved[1].lexer.source)
    /\ 0 < tokens.lexer.token_start
    /\ tokens.lexer.token_start < tokens.lexer.token_end

\* C19: when peek() reports a token t with text s, advance() consumes that
\* token: what is left to iterate after advance is what was left before
\* without its first element, that first element is t with a span whose
\* text is s, and the length after advance is the source length minus the
\* end of that span.
C19_AdvanceConsumesPeeked ==
    (Called = "advance" /\ peek(out.self).ret # None) =>
        LET before == iter_elements(out.self)
            first == before[1]
            peeked == peek(out.self).ret[1]
            source == out.self.lexer.source
        IN  /\ before # <<>>
            /\ iter_elements(tokens) = Tail(before)
            /\ first.token = peeked.token
            /\ Slice(source, first.span.start, first.span.end) = peeked.slice
            /\ len(tokens) = Len(source) - first.span.end

\* A later advance that passes skipped text and consumes the token after it.
C19_Witness ==
    /\ Called = "advance"
    /\ peek(out.self).ret # None
    /\ out.self.lexer.token_end > 0
    /\ iter_elements(out.self)[1].span.start > out.self.lexer.token_end
    /\ tokens.lexer.token_end = iter_elements(out.self)[1].span.end

\* The adapter after n calls of advance().
RECURSIVE Advanced(_, _)
Advanced(t, n) == IF n = 0 THEN t ELSE Advanced(advance(t), n - 1)

\* C20: advance() never makes length() larger, makes it smaller whenever
\* peek() reported a token, and at most length() calls of advance() lead to
\* an adapter whose peek() reports nothing.
C20_AdvanceTerminates ==
    /\ Called = "advance" =>
          /\ len(tokens) <= len(out.self)
          /\ peek(out.self).ret # None => len(tokens) < len(out.self)
    /\ \E n \in 0..len(tokens) : peek(Advanced(tokens, n)).ret = None

\* An advance over a token, after which tokens are left, fewer than bytes.
C20_Witness ==
    /\ Called = "advance"
    /\ peek(out.self).ret # None
    /\ peek(tokens).ret # None
    /\ Len(iter_elements(tokens)) < len(tokens)

====
